---- MODULE Spec2Model ----
(***************************************************************************)
(* The Streamlit entry script src/app.py of the expense tracker.  One      *)
(* script run is main(): load_user_data, then the onboarding page or the   *)
(* main page.  The session state (initialized, user_profile, expenses) is  *)
(* the program state; the external store, the wall clock and the page on   *)
(* the screen are its environment.                                         *)
(*                                                                         *)
(* Money is counted in whole rupees (integers); the rounding of Python's  *)
(* binary floats is not modelled.  A progress fraction is kept as a pair   *)
(* <<numerator, denominator>> with a positive denominator.                 *)
(***************************************************************************)
EXTENDS Integers, Sequences, FiniteSets, TLC

VARIABLES initialized, user_profile, expenses, store, now, elapsed, page, rerun, view

vars == <<initialized, user_profile, expenses, store, now, elapsed, page, rerun, view>>

----------------------------------------------------------------------------
(* Bounds of the model *)

\* the quick-add button is not pressed once the ledger holds this many expenses
MaxLedger == 3
\* the clock advances at most this many times in one behaviour
MaxElapsed == 2
\* distinct time-of-day values within one calendar day
TicksPerDay == 2
\* longest ledger of freely chosen expenses an arbitrary store holds
MaxStored == 1
\* longest ledger of same-day expenses an arbitrary store holds
MaxTied == 6

----------------------------------------------------------------------------
(* Program constants *)

DailyLimitMin == 100
DailyLimitMax == 10000
DailyLimitDefault == 500
SavingsGoalMin == 1000
SavingsGoalMax == 1000000
SavingsGoalDefault == 10000
AlertMin == 50
AlertMax == 90
AlertDefault == 80
WeekDays == 7
MonthDays == 30
RecentCount == 5

DefaultCategories == {"Groceries", "Fast Food", "Transportation", "Entertainment"}

----------------------------------------------------------------------------
(* Time: datetime values, their ISO strings, calendar dates *)

T(d, k) == [day |-> d, tick |-> k]

\* datetime.isoformat(): fixed-width fields, most significant first
isoformat(t) == <<t.day, t.tick>>

\* datetime.fromisoformat()
fromisoformat(s) == [day |-> s[1], tick |-> s[2]]

\* datetime.date(): the calendar day, time of day dropped
date(t) == t.day

\* str.__lt__ on two ISO strings: lexicographic, field by field
StrLess(a, b) == a[1] < b[1] \/ (a[1] = b[1] /\ a[2] < b[2])

----------------------------------------------------------------------------
(* Arithmetic *)

RECURSIVE SumAmounts(_)
\* sum(exp['amount'] for exp in seq)
SumAmounts(seq) ==
    IF seq = <<>> THEN 0 ELSE seq[1].amount + SumAmounts(Tail(seq))

\* a / b for b # 0, as a fraction with a positive denominator
TrueDiv(a, b) == IF b > 0 THEN <<a, b>> ELSE <<0 - a, 0 - b>>

\* x > 1.0 for a fraction x
ExceedsOne(x) == x[1] > x[2]

----------------------------------------------------------------------------
(* The collaborators of utils/ that src/ calls but does not contain *)

\* ExpenseCategorizer.categorize_expense: total, deterministic, one label of
\* the fixed enumeration; "Pizza" is Fast Food, unmatched text is Other
categorize_expense(description, amount) ==
    IF description = "Pizza" THEN "Fast Food" ELSE "Other"

\* DataManager.save_user_data: the store now holds the session's data
save_user_data(profile, ledger) ==
    [exists |-> TRUE, user_profile |-> profile, expenses |-> ledger]

\* DataManager.load_user_data: the session's data become what the store
\* holds; a stored profile marks the session initialized; with no store the
\* session is left as it is
load_user_data(st, init, profile, ledger) ==
    IF st.exists
    THEN [initialized |-> init \/ st.user_profile # <<>>,
          user_profile |-> st.user_profile,
          expenses |-> st.expenses]
    ELSE [initialized |-> init, user_profile |-> profile, expenses |-> ledger]

NoStore == [exists |-> FALSE, user_profile |-> <<>>, expenses |-> <<>>]

----------------------------------------------------------------------------
(* Widgets *)

\* st.number_input(min_value, max_value) and st.slider(lo, hi): the widget
\* yields only values within its range
NumberInput(candidates, lo, hi) == {v \in candidates : v >= lo /\ v <= hi}

NameInputs == {"", "Asha"}

DailyLimitInputs_NoMin == NumberInput({0, DailyLimitMin, DailyLimitDefault}, 0, DailyLimitMax)

DailyLimitInputs == NumberInput({0, DailyLimitMin, DailyLimitDefault}, DailyLimitMin, DailyLimitMax)

SavingsGoalInputs == NumberInput({0, SavingsGoalDefault}, SavingsGoalMin, SavingsGoalMax)

AlertInputs == NumberInput({40, AlertMin, AlertMax}, AlertMin, AlertMax)

\* quick_amount: min_value=0.01, no maximum; a whole-rupee v passes iff 100v >= 1
QuickAmountInputs == {v \in {0, 100, 250} : 100 * v >= 1}

QuickDescriptionInputs == {"", "Pizza"}

----------------------------------------------------------------------------
(* show_main_app: the sidebar and dashboard computations *)

today_expenses(ledger, t) ==
    SelectSeq(ledger, LAMBDA exp : date(fromisoformat(exp.date)) = date(t))

today_spent(ledger, t) == SumAmounts(today_expenses(ledger, t))

remaining_Clamped(daily_limit, spent) ==
    IF daily_limit - spent < 0 THEN 0 ELSE daily_limit - spent

remaining(daily_limit, spent) == daily_limit - spent

min_one_Unclamped(x) == x

\* min(x, 1.0)
min_one(x) == IF ExceedsOne(x) THEN <<1, 1>> ELSE x

weekly_expenses(ledger, t) ==
    SelectSeq(ledger, LAMBDA exp : date(fromisoformat(exp.date)) >= date(t) - WeekDays)

monthly_expenses(ledger, t) ==
    SelectSeq(ledger, LAMBDA exp : date(fromisoformat(exp.date)) >= date(t) - MonthDays)

\* one step of a stable descending sort: e goes after every element whose
\* key is not smaller than its own
InsertDesc(sorted, e) ==
    LET p == Cardinality({i \in 1..Len(sorted) : ~StrLess(sorted[i].date, e.date)})
    IN SubSeq(sorted, 1, p) \o <<e>> \o SubSeq(sorted, p + 1, Len(sorted))

RECURSIVE sorted_reverse(_)
\* sorted(seq, key=lambda x: x['date'], reverse=True): stable
sorted_reverse(seq) ==
    IF seq = <<>> THEN <<>>
    ELSE InsertDesc(sorted_reverse(SubSeq(seq, 1, Len(seq) - 1)), seq[Len(seq)])

RECURSIVE Reverse(_)
Reverse(seq) ==
    IF seq = <<>> THEN <<>> ELSE Reverse(Tail(seq)) \o <<seq[1]>>

\* the slice [:n]
Take(seq, n) == SubSeq(seq, 1, IF Len(seq) < n THEN Len(seq) ELSE n)

recent_expenses_Unstable(ledger) ==
    Take(sorted_reverse(Reverse(ledger)), RecentCount)

recent_expenses(ledger) == Take(sorted_reverse(ledger), RecentCount)

----------------------------------------------------------------------------
(* What one script run puts on the screen, with the inputs it read *)

BlankView ==
    [stage |-> "none", error |-> "", saved |-> FALSE,
     initialized |-> FALSE, profile |-> <<>>, ledger |-> <<>>, today |-> 0,
     submitted |-> FALSE, name |-> "",
     clicked |-> FALSE, quick_description |-> "", quick_amount |-> 0,
     today_spent |-> 0, remaining |-> 0,
     progress |-> <<0, 1>>, savings_progress |-> <<0, 1>>,
     weekly_spent |-> 0, monthly_spent |-> 0, recent |-> <<>>]

\* what every run starts from: the session as load_user_data left it
RunView(s, t) ==
    [BlankView EXCEPT !.initialized = s.initialized, !.profile = s.user_profile,
                      !.ledger = s.expenses, !.today = date(t)]

\* the sidebar: it ends in ZeroDivisionError when a denominator is 0
Sidebar(s, t) ==
    LET spent == today_spent(s.expenses, t)
        daily_limit == s.user_profile.daily_limit
        goal == s.user_profile.savings_goal_amount
        v1 == [RunView(s, t) EXCEPT !.today_spent = spent,
                                    !.remaining = remaining(daily_limit, spent)]
    IN IF daily_limit = 0
       THEN [v1 EXCEPT !.stage = "progress", !.error = "ZeroDivisionError"]
       ELSE LET v2 == [v1 EXCEPT !.progress = min_one(TrueDiv(spent, daily_limit))]
            IN IF goal = 0
               THEN [v2 EXCEPT !.stage = "savings", !.error = "ZeroDivisionError"]
               ELSE [v2 EXCEPT !.stage = "sidebar",
                               !.savings_progress =
                                   min_one(TrueDiv(s.user_profile.total_saved, goal))]

\* the dashboard metrics and the recent transactions below the quick-add
Dashboard(v, s, t) ==
    [v EXCEPT !.stage = "full",
              !.weekly_spent = SumAmounts(weekly_expenses(s.expenses, t)),
              !.monthly_spent = SumAmounts(monthly_expenses(s.expenses, t)),
              !.recent = recent_expenses(s.expenses)]

----------------------------------------------------------------------------
(* The handlers *)

\* main(): which page the run shows
NeedsOnboarding(s) == ~s.initialized \/ s.user_profile = <<>>

\* the guard of the onboarding form
OnboardingValid(submitted, name) == submitted /\ name # ""

NewProfile(name, daily_limit, savings_goal_amount, alert_threshold, t) ==
    [name |-> name,
     daily_limit |-> daily_limit,
     savings_goal_amount |-> savings_goal_amount,
     savings_goal_reason |-> "Trip",
     preferred_categories |-> DefaultCategories,
     alert_threshold |-> alert_threshold,
     created_date |-> isoformat(t),
     total_saved |-> 0]

QuickAddValid_AmountOnly(quick_description, quick_amount) == quick_amount > 0

\* the guard of the quick-add button
QuickAddValid(quick_description, quick_amount) ==
    quick_description # "" /\ quick_amount > 0

next_id(ledger) == Len(ledger) + 1

new_expense(ledger, quick_description, quick_amount, t) ==
    [id |-> next_id(ledger),
     date |-> isoformat(t),
     description |-> quick_description,
     amount |-> quick_amount,
     category |-> categorize_expense(quick_description, quick_amount),
     type |-> "manual"]

append_Prepend(ledger, exp) == <<exp>> \o ledger

\* list.append
append(ledger, exp) == Append(ledger, exp)

StoreAfterAppend_SaveFirst(profile, before, after) == save_user_data(profile, before)

\* the save_user_data() call that follows the append
StoreAfterAppend(profile, before, after) == save_user_data(profile, after)

\* the session state once this run's load_user_data() has returned
Session == load_user_data(store, initialized, user_profile, expenses)

\* a run without widget input that shows the onboarding form
ShowOnboarding ==
    LET s == Session
    IN /\ NeedsOnboarding(s)
       /\ initialized' = s.initialized
       /\ user_profile' = s.user_profile
       /\ expenses' = s.expenses
       /\ page' = "onboarding"
       /\ rerun' = FALSE
       /\ view' = [RunView(s, now) EXCEPT !.stage = "onboarding"]
       /\ UNCHANGED <<store, now, elapsed>>

\* a run in which the onboarding form was submitted
SubmitOnboarding ==
    LET s == Session
    IN /\ page = "onboarding"
       /\ ~rerun
       /\ NeedsOnboarding(s)
       /\ \E name \in NameInputs, daily_limit \in DailyLimitInputs,
             savings_goal_amount \in SavingsGoalInputs, alert_threshold \in AlertInputs :
            LET v == [RunView(s, now) EXCEPT !.stage = "onboarding",
                                             !.submitted = TRUE, !.name = name]
            IN IF OnboardingValid(TRUE, name)
               THEN LET profile == NewProfile(name, daily_limit, savings_goal_amount,
                                              alert_threshold, now)
                    IN /\ user_profile' = profile
                       /\ initialized' = TRUE
                       /\ expenses' = s.expenses
                       /\ store' = save_user_data(profile, s.expenses)
                       /\ rerun' = TRUE
                       /\ view' = [v EXCEPT !.saved = TRUE]
               ELSE /\ user_profile' = s.user_profile
                    /\ initialized' = s.initialized
                    /\ expenses' = s.expenses
                    /\ store' = store
                    /\ rerun' = FALSE
                    /\ view' = v
       /\ UNCHANGED <<page, now, elapsed>>

\* a run without a button press that shows the main page
ShowMainApp ==
    LET s == Session
        sb == Sidebar(s, now)
    IN /\ ~NeedsOnboarding(s)
       /\ initialized' = s.initialized
       /\ user_profile' = s.user_profile
       /\ expenses' = s.expenses
       /\ rerun' = FALSE
       /\ IF sb.error # ""
          THEN page' = "error" /\ view' = sb
          ELSE page' = "main" /\ view' = Dashboard(sb, s, now)
       /\ UNCHANGED <<store, now, elapsed>>

\* a run in which "Add Expense" was pressed
AddExpense ==
    LET s == Session
    IN /\ page = "main"
       /\ ~rerun
       /\ ~NeedsOnboarding(s)
       /\ Len(s.expenses) < MaxLedger
       /\ \E quick_description \in QuickDescriptionInputs, quick_amount \in QuickAmountInputs :
            LET sb == [Sidebar(s, now) EXCEPT !.clicked = TRUE,
                                              !.quick_description = quick_description,
                                              !.quick_amount = quick_amount]
                exp == new_expense(s.expenses, quick_description, quick_amount, now)
                after == append(s.expenses, exp)
            IN /\ initialized' = s.initialized
               /\ user_profile' = s.user_profile
               /\ IF sb.error # ""
                  THEN /\ expenses' = s.expenses
                       /\ store' = store
                       /\ rerun' = FALSE
                       /\ page' = "error"
                       /\ view' = sb
                  ELSE IF QuickAddValid(quick_description, quick_amount)
                  THEN /\ expenses' = after
                       /\ store' = StoreAfterAppend(s.user_profile, s.expenses, after)
                       /\ rerun' = TRUE
                       /\ page' = page
                       /\ view' = [sb EXCEPT !.stage = "rerun", !.saved = TRUE]
                  ELSE /\ expenses' = s.expenses
                       /\ store' = store
                       /\ rerun' = FALSE
                       /\ page' = page
                       /\ view' = Dashboard(sb, s, now)
       /\ UNCHANGED <<now, elapsed>>

\* the wall clock moves on
Tick ==
    /\ elapsed < MaxElapsed
    /\ elapsed' = elapsed + 1
    /\ now' = IF now.tick + 1 < TicksPerDay THEN T(now.day, now.tick + 1)
                                            ELSE T(now.day + 1, 0)
    /\ UNCHANGED <<initialized, user_profile, expenses, store, page, rerun, view>>

Next == ShowOnboarding \/ SubmitOnboarding \/ ShowMainApp \/ AddExpense \/ Tick

----------------------------------------------------------------------------
(* What the external store may hold when the session starts *)

SeqsUpTo(S, lo, hi) == UNION {[1..n -> S] : n \in lo..hi}

StoredExpense(i, t, a) ==
    [id |-> i, date |-> isoformat(t), description |-> "Bus", amount |-> a,
     category |-> "Transportation", type |-> "manual"]

StoredProfile(daily_limit, savings_goal_amount, total_saved) ==
    [name |-> "Asha",
     daily_limit |-> daily_limit,
     savings_goal_amount |-> savings_goal_amount,
     savings_goal_reason |-> "Trip",
     preferred_categories |-> DefaultCategories,
     alert_threshold |-> AlertDefault,
     created_date |-> isoformat(T(0, 0)),
     total_saved |-> total_saved]

StartTimes == {T(WeekDays + 1, 0), T(MonthDays + 1, 0)}

\* records of the documented data model: positive limits, unique ascending
\* positive ids (not necessarily 1..n), positive amounts, dates not after the
\* session's start
ValidProfiles ==
    {<<>>, StoredProfile(DailyLimitDefault, SavingsGoalDefault, 0),
           StoredProfile(DailyLimitMin, SavingsGoalDefault, 12000)}

ValidExpenses == {StoredExpense(i, T(d, 0), 40) : i \in 1..(MaxStored + 1), d \in {1, WeekDays + 1}}

ValidLedgers ==
    {l \in SeqsUpTo(ValidExpenses, 0, MaxStored) :
        \A i, j \in 1..Len(l) : i < j => l[i].id < l[j].id /\ ~StrLess(l[j].date, l[i].date)}

ValidStores ==
    {NoStore} \cup {save_user_data(p, l) : p \in ValidProfiles, l \in ValidLedgers}

\* any record at all: zero limits, dates on either side of every window
\* boundary and after today, ledgers longer than the recent list with ties
AnyProfiles ==
    {<<>>, StoredProfile(DailyLimitDefault, SavingsGoalDefault, 0),
           StoredProfile(0, SavingsGoalDefault, 0),
           StoredProfile(DailyLimitDefault, 0, 0)}

AnyTimes == {T(0, 0), T(1, 0), T(WeekDays + 1, 0), T(WeekDays + 1, 1), T(WeekDays + 2, 0)}

TiedTimes == {T(WeekDays + 1, 0), T(WeekDays + 1, 1)}

Renumber(l) == [i \in 1..Len(l) |-> StoredExpense(i, fromisoformat(l[i].date), l[i].amount)]

AnyLedgers ==
    {Renumber(l) : l \in SeqsUpTo({StoredExpense(1, t, 40) : t \in AnyTimes}, 0, MaxStored)
                       \cup SeqsUpTo({StoredExpense(1, t, 40) : t \in TiedTimes},
                                     RecentCount, MaxTied)}

AnyStores ==
    {NoStore} \cup {save_user_data(p, l) : p \in AnyProfiles, l \in AnyLedgers}

----------------------------------------------------------------------------
(* Specifications *)

InitWith(stores) ==
    /\ initialized = FALSE
    /\ user_profile = <<>>
    /\ expenses = <<>>
    /\ store \in stores
    /\ now \in StartTimes
    /\ elapsed = 0
    /\ page = "none"
    /\ rerun = FALSE
    /\ view = BlankView

Init == InitWith(ValidStores)

InitAny == InitWith(AnyStores)

\* the store holds nothing, or records of the documented data model
Spec == Init /\ [][Next]_vars

\* the store holds anything: the computations on arbitrary inputs
SpecAny == InitAny /\ [][Next]_vars

----------------------------------------------------------------------------
(* Vocabulary of the properties *)

RECURSIVE SumIdx(_, _)
\* the sum of the amounts at the positions I of the ledger l
SumIdx(l, I) ==
    IF I = {} THEN 0
    ELSE LET i == CHOOSE k \in I : TRUE IN l[i].amount + SumIdx(l, I \ {i})

\* the calendar day of the expense at position i
DayAt(l, i) == l[i].date[1]

\* the run computed the sidebar's spent and remaining
MetricsStages == {"progress", "savings", "rerun", "full"}

\* the run computed both progress fractions
ProgressStages == {"rerun", "full"}

\* this run appended an expense
Appended == view.clicked /\ view.saved

InUnit(x) == x[2] > 0 /\ 0 <= x[1] /\ x[1] <= x[2]

IsPrefix(a, b) == Len(a) <= Len(b) /\ SubSeq(b, 1, Len(a)) = a

\* position j is listed before position k: later timestamp first, equal
\* timestamps in ledger order
ListedBefore(l, j, k) ==
    LET a == fromisoformat(l[j].date)
        b == fromisoformat(l[k].date)
    IN \/ a.day > b.day
       \/ a.day = b.day /\ a.tick > b.tick
       \/ a = b /\ j < k

ExpectedRecent(l) ==
    [i \in 1..(IF Len(l) < RecentCount THEN Len(l) ELSE RecentCount) |->
        l[CHOOSE k \in 1..Len(l) :
            Cardinality({j \in 1..Len(l) : ListedBefore(l, j, k)}) = i - 1]]

----------------------------------------------------------------------------
(* C1 *)

\* C1: a successful quick-add append makes the ledger exactly one longer and
\* gives the new expense an id greater than every id already in the ledger,
\* so the ledger holds no two expenses with the same id.
C1_AppendIdFresh ==
    Appended =>
        /\ Len(expenses) = Len(view.ledger) + 1
        /\ \A i \in 1..Len(view.ledger) : expenses[Len(expenses)].id > view.ledger[i].id
        /\ \A i, j \in 1..Len(expenses) : i # j => expenses[i].id # expenses[j].id

(* C2 *)

\* C2: the "This Week" sum is the sum of the amounts of exactly the expenses
\* dated from today - 7 days up to and including today, and "This Month"
\* likewise with 30 days; an expense dated after today is not counted.
C2_WindowSums ==
    view.stage = "full" =>
        LET l == view.ledger
            Window(n) == {i \in 1..Len(l) : DayAt(l, i) >= view.today - n
                                            /\ DayAt(l, i) <= view.today}
        IN /\ view.weekly_spent = SumIdx(l, Window(WeekDays))
           /\ view.monthly_spent = SumIdx(l, Window(MonthDays))

(* C3 *)

\* C3: both progress fractions lie in [0, 1] however large the numerator is,
\* and are exactly 1 once the numerator reaches the denominator
\* (total_saved 12000 of a goal of 10000 gives 1).
C3_ProgressInUnit ==
    view.stage \in ProgressStages =>
        /\ InUnit(view.progress)
        /\ InUnit(view.savings_progress)
        /\ view.today_spent >= view.profile.daily_limit
               => view.progress[1] = view.progress[2]
        /\ view.profile.total_saved >= view.profile.savings_goal_amount
               => view.savings_progress[1] = view.savings_progress[2]

C3_Witness ==
    /\ view.stage = "full"
    /\ view.profile.total_saved = 12000
    /\ view.profile.savings_goal_amount = 10000
    /\ view.savings_progress = <<1, 1>>
    /\ view.today_spent > view.profile.daily_limit
    /\ view.progress = <<1, 1>>

(* C4 *)

\* C4: spent is the sum of the amounts of exactly the expenses dated on the
\* current calendar day and remaining is daily_limit - spent, unclamped; with
\* a limit of 500 an empty ledger gives 0 / 500 / progress 0, and one expense
\* of 250 today gives 250 / 250 / progress one half.
C4_DailyStatus ==
    view.stage \in MetricsStages =>
        LET l == view.ledger
            limit == view.profile.daily_limit
        IN /\ view.today_spent = SumIdx(l, {i \in 1..Len(l) : DayAt(l, i) = view.today})
           /\ view.remaining = limit - view.today_spent
           /\ (limit = 500 /\ l = <<>>) =>
                 /\ view.today_spent = 0
                 /\ view.remaining = 500
                 /\ view.progress[1] = 0
           /\ (limit = 500 /\ Len(l) = 1 /\ l[1].amount = 250 /\ DayAt(l, 1) = view.today) =>
                 /\ view.today_spent = 250
                 /\ view.remaining = 250
                 /\ 2 * view.progress[1] = view.progress[2]

C4_Witness ==
    /\ view.stage = "full"
    /\ view.remaining < 0
    /\ \E i \in 1..Len(view.ledger) : DayAt(view.ledger, i) # view.today
    /\ \E i \in 1..Len(view.ledger) : DayAt(view.ledger, i) = view.today

(* C5 *)

\* C5: a quick-add request with an empty description or a non-positive
\* amount creates no expense: ledger and profile are as the run found them,
\* the store is as it was and no save is issued.
C5_InvalidQuickAddRejected ==
    (view.clicked /\ (view.quick_description = "" \/ view.quick_amount <= 0)) =>
        /\ expenses = view.ledger
        /\ user_profile = view.profile
        /\ ~view.saved
        /\ ~rerun
        /\ store = save_user_data(view.profile, view.ledger)

C5_Witness ==
    /\ view.clicked
    /\ view.quick_description = ""
    /\ view.stage = "full"
    /\ Len(expenses) >= 1

(* C6 *)

\* C6: every mutation of the session's data by a handler is followed by a
\* save of the already-mutated state before the rerun: whenever profile or
\* ledger differ from what the run loaded, the run saved and asked for the
\* rerun, and the store holds exactly the session's data.
C6_MutationsSaved ==
    /\ (expenses # view.ledger \/ user_profile # view.profile) => (rerun /\ view.saved)
    /\ rerun => view.saved
    /\ view.saved => store = save_user_data(user_profile, expenses)

C6_Witness ==
    /\ rerun
    /\ Appended
    /\ Len(expenses) = Len(view.ledger) + 1
    /\ user_profile.alert_threshold = AlertMin

(* C7 *)

\* C7: with daily_limit = 0 or savings_goal_amount = 0 the progress
\* computation ends in the guarded DivisionUndefined outcome, not in an
\* unguarded division by zero that aborts the rendering.
C7_DivisionGuarded ==
    (/\ view.stage \in MetricsStages
     /\ (view.profile.daily_limit = 0 \/ view.profile.savings_goal_amount = 0))
        => view.error = "DivisionUndefined"

(* C8 *)

\* C8: the recent list is the first min(5, length) expenses by date
\* descending, equal dates in ledger insertion order, and the ledger is not
\* reordered by producing it.
C8_RecentTransactions ==
    view.stage = "full" =>
        /\ view.recent = ExpectedRecent(view.ledger)
        /\ expenses = view.ledger

C8_Witness ==
    /\ view.stage = "full"
    /\ Len(view.ledger) > RecentCount
    /\ Len(view.recent) = RecentCount
    /\ \E i \in 1..(RecentCount - 1) : view.recent[i].date = view.recent[i + 1].date
    /\ \E i \in 1..(RecentCount - 1) : view.recent[i].date # view.recent[i + 1].date
    /\ view.recent # SubSeq(view.ledger, 1, RecentCount)

(* C9 *)

\* C9: whenever a profile exists (the main page is shown) it has
\* daily_limit > 0, savings_goal_amount > 0 and 50 <= alert_threshold <= 90;
\* an onboarding submission with an empty name leaves user_profile and
\* initialized unchanged.
C9_ProfileInvariant ==
    /\ (initialized /\ user_profile # <<>>) =>
          /\ user_profile.daily_limit > 0
          /\ user_profile.savings_goal_amount > 0
          /\ user_profile.alert_threshold >= 50
          /\ user_profile.alert_threshold <= 90
    /\ (view.stage = "onboarding" /\ view.submitted /\ view.name = "") =>
          /\ user_profile = view.profile
          /\ initialized = view.initialized
          /\ ~view.saved

C9_Witness ==
    /\ page = "main"
    /\ initialized
    /\ user_profile # <<>>
    /\ user_profile.alert_threshold = AlertMin
    /\ user_profile.daily_limit = DailyLimitMin

(* C10 *)

\* C10: the ledger is append-only: every step leaves the earlier ledger as a
\* prefix of the later one, expense for expense, and a run that appends
\* leaves the profile unchanged.
C10_AppendOnly ==
    [][/\ IsPrefix(expenses, expenses')
       /\ (view'.clicked /\ view'.saved /\ expenses' # expenses)
              => user_profile' = user_profile]_vars

C10_Witness ==
    /\ Appended
    /\ Len(expenses) >= 3
    /\ expenses[1].description = "Bus"
    /\ expenses[Len(expenses)].description = "Pizza"

====
